---- MODULE Spec2Model ----
(***************************************************************************)
(* A model of mastogon's internal/db package: the DB type with its         *)
(* per-identifier lock registry (Lock/Unlock), its content table            *)
(* (Owns/Exists/Get/Create/Update/Delete) and the ordered collections kept  *)
(* in it (InboxContains/GetInbox/SetInbox/Followers), called concurrently   *)
(* by the goroutines of the go-fed actor.                                   *)
(***************************************************************************)
EXTENDS Naturals, Sequences, FiniteSets, TLC

(* ------------------------------ bounds -------------------------------- *)

\* Number of goroutines calling into the DB.
NumContexts == 3

Contexts == 1..NumContexts

\* Number of those goroutines that work on an inbox, or on a document, under
\* the lock of its id.
NumLockers == 2

Lockers == { c \in Contexts : c <= NumLockers }

(* ------------------------------- URLs --------------------------------- *)

\* The *url.URL values used as ActivityPub ids.
Ids ==
  { [host |-> "other.example", path |-> "/users/x"],
    [host |-> "OTHER.example", path |-> "/users/x"] }

\* (*url.URL).String(): scheme, host and path joined; the host keeps its case.
String(u) == "https://" \o u.host \o u.path

Keys == { String(u) : u \in Ids }

\* The hostnames a DB can be constructed with; the command constructs it
\* with "localhost".
Hostnames == { "localhost", "other.example", "elsewhere.example" }

(* ----------------------------- documents ------------------------------ *)

NoId == [host |-> "", path |-> ""]
NoDoc == [id |-> NoId, body |-> ""]

\* The payloads a document can carry besides its id.
Bodies == { "v1", "v2" }

\* vocab.Type values: a payload with an optional id property.
Docs == [id : Ids \cup {NoId}, body : Bodies]

NoMutex == 0

\* One more mutex than can be referenced at once: one per registry entry and
\* one per goroutine inside Lock or Unlock.
MutexNames == 1..(Cardinality(Ids) + NumContexts)

VARIABLES
  hostname,   \* DB.hostname
  content,    \* DB.content: sync.Map from id string to *DBContent
  locks,      \* DB.locks: sync.Map from id string to *sync.Mutex
  mutexes,    \* the live sync.Mutex objects: name -> TRUE when locked
  pc,         \* per goroutine: the line it is at inside a DB method
  arg,        \* per goroutine: the id argument of the call it is in
  mu,         \* per goroutine: the local variable mu of Lock / Unlock
  cancelled,  \* per goroutine: whether the context.Context of its call is done
  depth,      \* per goroutine: the DB.Delete depth on its stack: "none",
              \* "outer" (the caller's call) or "nested" (calls from line 130)
  ret,        \* per goroutine: what its last Lock / Unlock call returned
  held,       \* per goroutine: ids it returned from Lock for and has not unlocked
  last,       \* the last completed call on the content table and its result
  lastWrite,  \* per id string: the document of the last successful Create/Update
  crashed,    \* the fatal runtime error that stopped the process, or "none"
  page,       \* per goroutine: the inbox page it got from GetInbox and edits
  storedInbox,\* per goroutine: the local variable storedInbox of SetInbox
  order       \* per goroutine: the order in which it takes the locks of two ids

vars == <<hostname, content, locks, mutexes, pc, arg, mu, cancelled, depth,
          ret, held, last, lastWrite, crashed, page, storedInbox, order>>

lockVars == <<locks, mutexes, pc, arg, mu, cancelled, ret, held>>
storeVars == <<content, last, lastWrite>>
callerVars == <<page, storedInbox, order>>

(* ----------------------------- sync.Map ------------------------------- *)

\* sync.Map.Load: the value stored under k and whether there is one.
MapLoad(m, k) ==
  IF k \in DOMAIN m THEN [value |-> m[k], ok |-> TRUE]
                    ELSE [value |-> NoMutex, ok |-> FALSE]

\* A Store that rebuilds the map with the one binding it was given.
MapStoreOnly(m, k, v) == [x \in {k} |-> v]

\* sync.Map.Store: k is bound to v, replacing any earlier binding.
MapStore(m, k, v) == [x \in DOMAIN m \cup {k} |-> IF x = k THEN v ELSE m[x]]

\* A LoadOrStore that stores unconditionally and reports "stored".
LoadOrStoreBlind(m, k, v) ==
  [map |-> MapStore(m, k, v), actual |-> v, loaded |-> FALSE]

\* sync.Map.LoadOrStore: in one atomic step, the existing value under k if
\* there is one (loaded), else v is stored and returned.
LoadOrStore(m, k, v) ==
  IF k \in DOMAIN m
    THEN [map |-> m, actual |-> m[k], loaded |-> TRUE]
    ELSE [map |-> MapStore(m, k, v), actual |-> v, loaded |-> FALSE]

(* ---------------------------- sync.Mutex ------------------------------ *)

\* &sync.Mutex{}: a mutex object distinct from every live one.
NewMutex ==
  CHOOSE n \in MutexNames :
    /\ n \notin DOMAIN mutexes
    /\ \A k \in MutexNames : k < n => k \in DOMAIN mutexes

\* The mutex objects still referenced by the registry or by a goroutine's mu;
\* the others are garbage.
Live(heap, registry, locals) ==
  LET used == { registry[k] : k \in DOMAIN registry }
                \cup { locals[c] : c \in Contexts }
  IN  [n \in DOMAIN heap \cap used |-> heap[n]]

\* A Lock that goes ahead whether or not the mutex is locked.
CanLockAny(heap, m) == m \in DOMAIN heap

\* sync.Mutex.Lock can return only while the mutex is unlocked.
CanLock(heap, m) == m \in DOMAIN heap /\ ~heap[m]

(* ------------------------------ DB.Lock ------------------------------- *)

Running == crashed = "none"

\* The error value a Lock or Unlock call returned to goroutine c.
Returned(c, err) == [ret EXCEPT ![c] = err]

\* A Lock that keeps waiting on the mutex it made itself.
WaitTargetOwn(existing, own) == own

\* Line 46: on a loaded entry, mu becomes the mutex found in the registry.
WaitTarget(existing, own) == existing

\* Lines 42-45: make a locked mutex, LoadOrStore it under the id; when it was
\* stored the call returns holding it, else the call goes on to line 47.
LockCall(c, id) ==
  /\ Running
  /\ pc[c] = "idle"
  /\ LET own  == NewMutex
         heap == [n \in DOMAIN mutexes \cup {own} |->
                    IF n = own THEN TRUE ELSE mutexes[n]]
         r    == LoadOrStore(locks, String(id), own)
     IN  /\ locks' = r.map
         /\ IF r.loaded
              THEN /\ mu' = [mu EXCEPT ![c] = WaitTarget(r.actual, own)]
                   /\ pc' = [pc EXCEPT ![c] = "Lock47"]
                   /\ arg' = [arg EXCEPT ![c] = id]
                   /\ UNCHANGED <<ret, held>>
              ELSE /\ UNCHANGED <<mu, pc, arg>>
                   /\ ret' = Returned(c, "nil")
                   /\ held' = [held EXCEPT ![c] = @ \cup {id}]
         /\ mutexes' = Live(heap, locks', mu')
  /\ UNCHANGED <<hostname, callerVars, cancelled, depth, crashed, storeVars>>

\* Line 47-49: mu.Lock() on the registry's mutex, then return nil. The
\* context c is never consulted.
LockAcquire(c) ==
  /\ Running
  /\ pc[c] = "Lock47"
  /\ CanLock(mutexes, mu[c])
  /\ mu' = [mu EXCEPT ![c] = NoMutex]
  /\ mutexes' = Live([mutexes EXCEPT ![mu[c]] = TRUE], locks, mu')
  /\ pc' = [pc EXCEPT ![c] = "idle"]
  /\ arg' = [arg EXCEPT ![c] = NoId]
  /\ ret' = Returned(c, "nil")
  /\ held' = [held EXCEPT ![c] = @ \cup {arg[c]}]
  /\ cancelled' = [cancelled EXCEPT ![c] = FALSE]
  /\ UNCHANGED <<hostname, callerVars, locks, depth, crashed, storeVars>>

\* The caller's context is cancelled while its Lock call is blocked at line
\* 47 on a locked mutex. No line of the DB reads the context, so a
\* cancellation at any other moment changes nothing either.
Cancel(c) ==
  /\ Running
  /\ pc[c] = "Lock47"
  /\ mutexes[mu[c]]
  /\ ~cancelled[c]
  /\ cancelled' = [cancelled EXCEPT ![c] = TRUE]
  /\ UNCHANGED <<hostname, callerVars, locks, mutexes, pc, arg, mu, depth, ret, held,
                 crashed, storeVars>>

(* ----------------------------- DB.Unlock ------------------------------ *)

\* Lines 57-61: Load the mutex of id; without an entry return an error.
UnlockCall(c, id) ==
  /\ Running
  /\ pc[c] = "idle"
  /\ LET r == MapLoad(locks, String(id))
     IN  IF ~r.ok
           THEN /\ ret' = Returned(c, "Missing an id in Unlock")
                /\ UNCHANGED <<pc, arg, mu>>
           ELSE /\ mu' = [mu EXCEPT ![c] = r.value]
                /\ pc' = [pc EXCEPT ![c] = "Unlock62"]
                /\ arg' = [arg EXCEPT ![c] = id]
                /\ UNCHANGED ret
  /\ UNCHANGED <<hostname, callerVars, locks, mutexes, cancelled, depth, held, crashed,
                 storeVars>>

\* An Unlock that also takes the id's entry out of the registry.
UnlockReleaseDrop(c) ==
  /\ Running
  /\ pc[c] = "Unlock62"
  /\ mutexes[mu[c]]
  /\ locks' = [k \in DOMAIN locks \ {String(arg[c])} |-> locks[k]]
  /\ mu' = [mu EXCEPT ![c] = NoMutex]
  /\ mutexes' = Live([mutexes EXCEPT ![mu[c]] = FALSE], locks', mu')
  /\ pc' = [pc EXCEPT ![c] = "idle"]
  /\ arg' = [arg EXCEPT ![c] = NoId]
  /\ ret' = Returned(c, "nil")
  /\ held' = [held EXCEPT ![c] = @ \ {arg[c]}]
  /\ UNCHANGED <<hostname, callerVars, cancelled, depth, crashed, storeVars>>

\* Lines 62-63: mu.Unlock(), whoever locked it, then return nil. Unlocking
\* an unlocked sync.Mutex is a fatal runtime error that ends the process.
UnlockRelease(c) ==
  /\ Running
  /\ pc[c] = "Unlock62"
  /\ IF mutexes[mu[c]]
       THEN /\ mu' = [mu EXCEPT ![c] = NoMutex]
            /\ mutexes' = Live([mutexes EXCEPT ![mu[c]] = FALSE], locks, mu')
            /\ pc' = [pc EXCEPT ![c] = "idle"]
            /\ arg' = [arg EXCEPT ![c] = NoId]
            /\ ret' = Returned(c, "nil")
            /\ held' = [held EXCEPT ![c] = @ \ {arg[c]}]
            /\ UNCHANGED crashed
       ELSE /\ crashed' = "fatal error: sync: unlock of unlocked mutex"
            /\ UNCHANGED <<mu, mutexes, pc, arg, held, ret>>
  /\ UNCHANGED <<hostname, callerVars, locks, cancelled, depth, storeVars>>

(* ------------------------------ DB.Owns ------------------------------- *)

\* Lines 66-72: the id's host compared with the hostname as strings.
Owns(id) == id.host = hostname

\* A call of Owns(id), with its result.
OwnsCall(id) ==
  /\ Running
  /\ last' = [op |-> "Owns", id |-> id, doc |-> NoDoc, val |-> NoDoc,
              found |-> Owns(id), err |-> "nil"]
  /\ UNCHANGED <<hostname, callerVars, content, lastWrite, depth, crashed, lockVars>>

(* ------------------------- DB.Exists / DB.Get ------------------------- *)

\* Lines 74-79: whether the content map has an entry under the id's string.
Exists(id) == String(id) \in DOMAIN content

ExistsCall(id) ==
  /\ Running
  /\ last' = [op |-> "Exists", id |-> id, doc |-> NoDoc, val |-> NoDoc,
              found |-> Exists(id), err |-> "nil"]
  /\ UNCHANGED <<hostname, callerVars, content, lastWrite, depth, crashed, lockVars>>

\* A Get that fails exactly when the entry is there.
GetInverted(id) ==
  IF String(id) \in DOMAIN content
    THEN [value |-> NoDoc, err |-> "Get failed"]
    ELSE [value |-> NoDoc, err |-> "nil"]

\* Lines 81-93: the data of the entry under the id's string, or the error
\* "Get failed" when there is none.
Get(id) ==
  IF String(id) \notin DOMAIN content
    THEN [value |-> NoDoc, err |-> "Get failed"]
    ELSE [value |-> content[String(id)].data, err |-> "nil"]

GetCall(id) ==
  /\ Running
  /\ last' = [op |-> "Get", id |-> id, doc |-> NoDoc, val |-> Get(id).value,
              found |-> FALSE, err |-> Get(id).err]
  /\ UNCHANGED <<hostname, callerVars, content, lastWrite, depth, crashed, lockVars>>

(* ------------------------ DB.Create / DB.Update ----------------------- *)

\* pub.GetId: the id property of a document, or an error when it has none.
GetId(doc) ==
  IF doc.id = NoId THEN [id |-> NoId, err |-> "no id property"]
                   ELSE [id |-> doc.id, err |-> "nil"]

\* Lines 95-114: the content map and the error after Create(doc) on cont.
Create(cont, doc) ==
  LET g == GetId(doc)
  IN  IF g.err # "nil"
        THEN [content |-> cont, err |-> g.err]
        ELSE [content |-> MapStore(cont, String(g.id),
                                   [data |-> doc, isLocal |-> Owns(g.id)]),
              err |-> "nil"]

\* An Update in the manner of SQL: it changes only an entry that is there.
UpdateExisting(cont, doc) ==
  IF doc.id # NoId /\ String(doc.id) \notin DOMAIN cont
    THEN [content |-> cont, err |-> "not found"]
    ELSE Create(cont, doc)

\* An Update that stores the document as one received from a peer server.
UpdateFederated(cont, doc) ==
  LET r == Create(cont, doc)
  IN  IF r.err # "nil"
        THEN r
        ELSE [content |-> MapStore(cont, String(doc.id),
                                   [data |-> doc, isLocal |-> FALSE]),
              err |-> "nil"]

\* Lines 116-125: Update returns what Create does.
Update(cont, doc) == Create(cont, doc)

\* What a completed Create or Update leaves in last, content and lastWrite.
Wrote(op, doc, r) ==
  /\ content' = r.content
  /\ last' = [op |-> op, id |-> doc.id, doc |-> doc, val |-> NoDoc,
              found |-> FALSE, err |-> r.err]
  /\ lastWrite' = IF r.err = "nil"
                    THEN [lastWrite EXCEPT ![String(doc.id)] = doc]
                    ELSE lastWrite

CreateCall(doc) ==
  /\ Running
  /\ Wrote("Create", doc, Create(content, doc))
  /\ UNCHANGED <<hostname, callerVars, depth, crashed, lockVars>>

UpdateCall(doc) ==
  /\ Running
  /\ Wrote("Update", doc, Update(content, doc))
  /\ UNCHANGED <<hostname, callerVars, depth, crashed, lockVars>>

(* ----------------------------- DB.Delete ------------------------------ *)

\* Lines 127-130: Delete(id) is entered and stands before line 130.
DeleteCall(c, id) ==
  /\ Running
  /\ pc[c] = "idle"
  /\ pc' = [pc EXCEPT ![c] = "Delete130"]
  /\ arg' = [arg EXCEPT ![c] = id]
  /\ depth' = [depth EXCEPT ![c] = "outer"]
  /\ UNCHANGED <<hostname, callerVars, locks, mutexes, mu, cancelled, ret, held, crashed,
                 storeVars>>

\* Line 130: m.Delete is DB.Delete itself, not the content map's Delete: the
\* call enters Delete again and the content map is not touched.
DeleteRecurse(c) ==
  /\ Running
  /\ pc[c] = "Delete130"
  /\ depth' = [depth EXCEPT ![c] = "nested"]
  /\ UNCHANGED <<hostname, callerVars, lockVars, crashed, storeVars>>

\* The unbounded recursion of line 130 exhausts the goroutine's stack, which
\* is a fatal runtime error; line 131 is never reached.
DeleteOverflow(c) ==
  /\ Running
  /\ pc[c] = "Delete130"
  /\ depth[c] = "nested"
  /\ crashed' = "fatal error: stack overflow"
  /\ UNCHANGED <<hostname, callerVars, lockVars, depth, storeVars>>

(* ------------------------- ordered collections ------------------------ *)

\* The longest list of items an inbox is let grow to.
MaxItems == 4

\* The ids of the activities that inboxes and followers collections list.
Item(p) == [host |-> "other.example", path |-> p]
Items == { Item("/a"), Item("/b"), Item("/c"), Item("/x") }

\* The id under which the inbox of the actor is stored.
InboxIRI == [host |-> "other.example", path |-> "/users/x"]

\* vocab.ActivityStreamsOrderedCollection: has says whether the orderedItems
\* property is there at all, items lists the ids of its elements.
Collection(id, has, items) ==
  [id |-> id, body |-> "OrderedCollection", hasItems |-> has, items |-> items]

\* vocab.ActivityStreamsPerson with its followers property, NoId when nil.
Person(id, followers) == [id |-> id, body |-> "Person", followers |-> followers]

\* vocab.ActivityStreamsOrderedCollectionPage: a view of len items of the
\* collection partOf from index start on; was holds the items as fetched and
\* items the items as the caller hands them back.
Page(partOf, start, len, was, items) ==
  [partOf |-> partOf, start |-> start, len |-> len, was |-> was, items |-> items]

NoPage == Page(NoId, 0, 0, << >>, << >>)

Min(a, b) == IF a < b THEN a ELSE b

\* The items i..j of s, cut to the indexes s has.
Slice(s, i, j) == SubSeq(s, i, Min(j, Len(s)))

\* DB.getOrderedCollection: the collection stored under the id, or an error
\* when nothing is stored there or what is stored is no OrderedCollection.
getOrderedCollection(cont, id) ==
  IF String(id) \notin DOMAIN cont
    THEN [value |-> NoDoc, err |-> "not found"]
    ELSE IF cont[String(id)].data.body # "OrderedCollection"
      THEN [value |-> NoDoc, err |-> "not an OrderedCollection"]
      ELSE [value |-> cont[String(id)].data, err |-> "nil"]

\* DB.getOrderedCollectionPage: the page of len items from index start on of
\* the collection stored under the id.
getOrderedCollectionPage(cont, id, start, len) ==
  LET oc == getOrderedCollection(cont, id)
  IN  IF oc.err # "nil"
        THEN [value |-> NoPage, err |-> oc.err]
        ELSE LET sl == Slice(oc.value.items, start, start + len - 1)
             IN  [value |-> Page(id, start, len, sl, sl), err |-> "nil"]

\* DB.applyDiffOrderedCollection: the items of the stored collection before
\* the page's window are kept, the window is replaced by the page's items
\* (so items new in the page are inserted at their place in the page and
\* items missing from it are removed), the items after the window are kept.
applyDiffOrderedCollection(stored, pg) ==
  LET n  == Len(stored.items)
      lo == Min(pg.start - 1, n)
      hi == Min(pg.start + pg.len, n + 1)
      merged == SubSeq(stored.items, 1, lo) \o pg.items
                  \o SubSeq(stored.items, hi, n)
  IN  Collection(stored.id, stored.hasItems \/ merged # << >>, merged)

\* DB.saveToContent: the collection is stored under its id by Update.
saveToContent(cont, doc) == Update(cont, doc)

\* DB.getPerson: the Person stored under the id, or an error.
getPerson(cont, id) ==
  IF String(id) \notin DOMAIN cont
    THEN [value |-> NoDoc, err |-> "not found"]
    ELSE IF cont[String(id)].data.body # "Person"
      THEN [value |-> NoDoc, err |-> "not a Person"]
      ELSE [value |-> cont[String(id)].data, err |-> "nil"]

(* -------------------------- DB.InboxContains -------------------------- *)

\* An InboxContains that looks at the first item only.
InboxContainsFirst(cont, inbox, id) ==
  LET oc == getOrderedCollection(cont, inbox)
  IN  IF oc.err # "nil"
        THEN [contains |-> FALSE, err |-> oc.err]
        ELSE [contains |-> /\ oc.value.hasItems
                           /\ oc.value.items # << >>
                           /\ String(oc.value.items[1]) = String(id),
              err |-> "nil"]

\* Lines 134-170: the error of getOrderedCollection if it has one; false
\* when the orderedItems property is nil; else true as soon as an item's id
\* has the string of the id asked for. Every item here is an id, for which
\* pub.ToId (line 157) has no error.
InboxContains(cont, inbox, id) ==
  LET oc == getOrderedCollection(cont, inbox)
  IN  IF oc.err # "nil"
        THEN [contains |-> FALSE, err |-> oc.err]
        ELSE IF ~oc.value.hasItems
          THEN [contains |-> FALSE, err |-> "nil"]
          ELSE [contains |-> \E i \in 1..Len(oc.value.items) :
                               String(oc.value.items[i]) = String(id),
                err |-> "nil"]

InboxContainsCall(inbox, id) ==
  /\ Running
  /\ last' = [op |-> "InboxContains", id |-> id, doc |-> NoDoc, val |-> NoDoc,
              found |-> InboxContains(content, inbox, id).contains,
              err |-> InboxContains(content, inbox, id).err]
  /\ UNCHANGED <<hostname, callerVars, content, lastWrite, depth, crashed,
                 lockVars>>

(* ---------------------- DB.GetInbox / DB.SetInbox --------------------- *)

\* Lines 172-182: the page asked for, handed to the calling goroutine.
GetInboxCall(c, inboxIRI, start, len) ==
  /\ Running
  /\ pc[c] = "idle"
  /\ LET oc == getOrderedCollection(content, inboxIRI)
     IN  oc.err = "nil" =>
           /\ start \in 1..(Len(oc.value.items) + 1)
           /\ start + len - 1 <= Len(oc.value.items)
  /\ LET r == getOrderedCollectionPage(content, inboxIRI, start, len)
     IN  /\ page' = [page EXCEPT ![c] = r.value]
         /\ last' = [op |-> "GetInbox", id |-> inboxIRI, doc |-> NoDoc,
                     val |-> NoDoc, found |-> FALSE, err |-> r.err]
  /\ UNCHANGED <<hostname, storedInbox, order, content, lastWrite, depth,
                 crashed, lockVars>>

\* The items of s with x put in before index i.
InsertAt(s, i, x) == SubSeq(s, 1, i - 1) \o <<x>> \o SubSeq(s, i, Len(s))

\* The items of s without the one at index i.
RemoveAt(s, i) == SubSeq(s, 1, i - 1) \o SubSeq(s, i + 1, Len(s))

\* The number of items of the collection page pg is a view of.
StoredLen(pg) ==
  LET oc == getOrderedCollection(content, pg.partOf)
  IN  IF oc.err = "nil" THEN Len(oc.value.items) ELSE 0

\* The caller of GetInbox adds an item to the page it got, before SetInbox.
EditInsert(c, pos, item) ==
  /\ Running
  /\ pc[c] = "idle"
  /\ page[c] # NoPage
  /\ page[c].items = page[c].was
  /\ StoredLen(page[c]) < MaxItems
  /\ pos \in 1..(Len(page[c].items) + 1)
  /\ page' = [page EXCEPT ![c].items = InsertAt(@, pos, item)]
  /\ UNCHANGED <<hostname, storedInbox, order, storeVars, depth, crashed,
                 lockVars>>

\* The caller of GetInbox drops an item from the page it got, before SetInbox.
EditRemove(c, pos) ==
  /\ Running
  /\ pc[c] = "idle"
  /\ page[c] # NoPage
  /\ page[c].items = page[c].was
  /\ pos \in 1..Len(page[c].items)
  /\ page' = [page EXCEPT ![c].items = RemoveAt(@, pos)]
  /\ UNCHANGED <<hostname, storedInbox, order, storeVars, depth, crashed,
                 lockVars>>

\* A SetInbox that stores the page's items as the whole collection.
updatedInboxOverwrite(stored, inbox) ==
  Collection(stored.id, TRUE, inbox.items)

\* A SetInbox that only ever adds: the stored items, then the page's items
\* that are not stored yet.
updatedInboxKeepAll(stored, inbox) ==
  LET IsNew(x) == \A i \in 1..Len(stored.items) : stored.items[i] # x
  IN  Collection(stored.id, TRUE, stored.items \o SelectSeq(inbox.items, IsNew))

\* Line 201: updatedInbox is the stored collection with the page's diff.
updatedInbox(stored, inbox) == applyDiffOrderedCollection(stored, inbox)

\* What SetInbox leaves in last when it returns err for the page inbox.
SetInboxReturned(inbox, err) ==
  [op |-> "SetInbox", id |-> inbox.partOf, doc |-> inbox, val |-> NoDoc,
   found |-> FALSE, err |-> err]

\* Lines 184-197: SetInbox(page[c]) loads the stored inbox; its inboxIRI is
\* the id of the collection the page belongs to. With an error it returns.
SetInboxLoad(c) ==
  /\ Running
  /\ pc[c] = "idle"
  /\ page[c] # NoPage
  /\ LET r == getOrderedCollection(content, page[c].partOf)
     IN  IF r.err # "nil"
           THEN /\ last' = SetInboxReturned(page[c], r.err)
                /\ page' = [page EXCEPT ![c] = NoPage]
                /\ UNCHANGED <<pc, storedInbox>>
           ELSE /\ storedInbox' = [storedInbox EXCEPT ![c] = r.value]
                /\ pc' = [pc EXCEPT ![c] = "SetInbox201"]
                /\ UNCHANGED <<page, last>>
  /\ UNCHANGED <<hostname, order, content, lastWrite, depth, crashed, locks,
                 mutexes, arg, mu, cancelled, ret, held>>

\* Lines 201-206: the diff of the page is applied to the collection loaded
\* at line 194 and the result is saved.
SetInboxSave(c) ==
  /\ Running
  /\ pc[c] = "SetInbox201"
  /\ LET u == updatedInbox(storedInbox[c], page[c])
         r == saveToContent(content, u)
     IN  /\ content' = r.content
         /\ last' = SetInboxReturned(page[c], r.err)
         /\ lastWrite' = IF r.err = "nil"
                           THEN [lastWrite EXCEPT ![String(u.id)] = u]
                           ELSE lastWrite
  /\ page' = [page EXCEPT ![c] = NoPage]
  /\ storedInbox' = [storedInbox EXCEPT ![c] = NoDoc]
  /\ pc' = [pc EXCEPT ![c] = "idle"]
  /\ UNCHANGED <<hostname, order, depth, crashed, locks, mutexes, arg, mu,
                 cancelled, ret, held>>

(* ---------------------------- DB.Followers ---------------------------- *)

\* A Followers that answers an actor without followers property with no
\* collection and no error.
FollowersLenient(cont, actorIRI) ==
  LET person == getPerson(cont, actorIRI)
  IN  IF person.err # "nil"
        THEN [value |-> NoDoc, err |-> person.err]
        ELSE IF person.value.followers = NoId
          THEN [value |-> NoDoc, err |-> "nil"]
          ELSE getOrderedCollection(cont, person.value.followers)

\* Lines 250-276: the error of getPerson if it has one; the error "no
\* followers collection" when the person's followers property is nil; else
\* what getOrderedCollection returns for the id of that property.
Followers(cont, actorIRI) ==
  LET person == getPerson(cont, actorIRI)
  IN  IF person.err # "nil"
        THEN [value |-> NoDoc, err |-> person.err]
        ELSE IF person.value.followers = NoId
          THEN [value |-> NoDoc, err |-> "no followers collection"]
          ELSE getOrderedCollection(cont, person.value.followers)

FollowersCall(actorIRI) ==
  /\ Running
  /\ last' = [op |-> "Followers", id |-> actorIRI, doc |-> NoDoc,
              val |-> Followers(content, actorIRI).value,
              found |-> FALSE, err |-> Followers(content, actorIRI).err]
  /\ UNCHANGED <<hostname, callerVars, content, lastWrite, depth, crashed,
                 lockVars>>

(* --------------------------- specifications --------------------------- *)

NoRet == "none"
NoCall == [op |-> "none", id |-> NoId, doc |-> NoDoc, val |-> NoDoc,
           found |-> FALSE, err |-> "none"]

\* DB.Construct with empty maps, as the command does, for hostname h, and
\* goroutines that take the locks of two ids in the orders o.
ConstructedWith(h, o) ==
  /\ hostname = h
  /\ content = << >>
  /\ locks = << >>
  /\ mutexes = << >>
  /\ pc = [c \in Contexts |-> "idle"]
  /\ arg = [c \in Contexts |-> NoId]
  /\ mu = [c \in Contexts |-> NoMutex]
  /\ cancelled = [c \in Contexts |-> FALSE]
  /\ depth = [c \in Contexts |-> "none"]
  /\ ret = [c \in Contexts |-> NoRet]
  /\ held = [c \in Contexts |-> {}]
  /\ last = NoCall
  /\ lastWrite = [k \in Keys |-> NoDoc]
  /\ crashed = "none"
  /\ page = [c \in Contexts |-> NoPage]
  /\ storedInbox = [c \in Contexts |-> NoDoc]
  /\ order = o

Constructed(h) == ConstructedWith(h, [c \in Contexts |-> "ascending"])

Init == Constructed("localhost")

\* Goroutines that bracket their work on an id with Lock(id) ... Unlock(id),
\* as the go-fed actor does, under contexts that may be cancelled.
LockNext ==
  \E c \in Contexts :
    \/ \E id \in Ids : id \notin held[c] /\ LockCall(c, id)
    \/ LockAcquire(c)
    \/ Cancel(c)
    \/ \E id \in Ids : id \in held[c] /\ UnlockCall(c, id)
    \/ UnlockRelease(c)

LockSpec == Init /\ [][LockNext]_vars

\* The content table's methods, which take no lock themselves.
StoreNext ==
  \/ \E id \in Ids : OwnsCall(id) \/ ExistsCall(id) \/ GetCall(id)
  \/ \E doc \in Docs : CreateCall(doc) \/ UpdateCall(doc)
  \/ \E c \in Contexts :
       \/ \E id \in Ids : DeleteCall(c, id)
       \/ DeleteRecurse(c)
       \/ DeleteOverflow(c)

\* A DB constructed for any hostname, with callers of the content table.
StoreSpec == (\E h \in Hostnames : Constructed(h)) /\ [][StoreNext]_vars

\* Goroutines that call Lock and Unlock in any order, holding the lock or
\* not, with contexts that may be cancelled.
CallerNext ==
  \E c \in Contexts :
    \/ \E id \in Ids : LockCall(c, id) \/ UnlockCall(c, id)
    \/ LockAcquire(c)
    \/ UnlockRelease(c)
    \/ Cancel(c)

CallerSpec == Init /\ [][CallerNext]_vars

\* Any goroutine may call any method at any time.
Next == CallerNext \/ StoreNext

Spec == Init /\ [][Next]_vars

\* The Go scheduler runs every runnable goroutine: a goroutine waiting in
\* mu.Lock() on a mutex that stays unlocked gets it.
FairLockSpec == LockSpec /\ \A c \in Contexts : WF_vars(LockAcquire(c))

\* The goroutine that works on the inbox when one goroutine does.
Worker == CHOOSE c \in Contexts : \A d \in Contexts : c <= d

\* The collections an inbox starts as: without items, the orderedItems
\* property being nil or an empty list.
EmptyInboxes == { Collection(InboxIRI, has, << >>) : has \in BOOLEAN }

\* One goroutine that creates the inbox, asks whether it contains an item,
\* and changes it page by page: GetInbox, one edit of the page, SetInbox.
InboxNext ==
  \/ \E doc \in EmptyInboxes :
       /\ ~Exists(InboxIRI)
       /\ CreateCall(doc)
  \/ \E start \in 1..(MaxItems + 1) : \E len \in 0..MaxItems :
       /\ page[Worker] = NoPage
       /\ GetInboxCall(Worker, InboxIRI, start, len)
  \/ \E pos \in 1..(MaxItems + 1) : \E item \in Items :
       EditInsert(Worker, pos, item)
  \/ \E pos \in 1..MaxItems : EditRemove(Worker, pos)
  \/ SetInboxLoad(Worker)
  \/ SetInboxSave(Worker)
  \/ \E id \in Items :
       /\ pc[Worker] = "idle" /\ page[Worker] = NoPage
       /\ InboxContainsCall(InboxIRI, id)

InboxSpec == Init /\ [][InboxNext]_vars

\* The actors and the followers collections stored in the content table.
ActorDocs ==
  { Person(id, f) : id \in Ids, f \in Ids \cup {NoId} }
    \cup { Collection(id, FALSE, << >>) : id \in Ids }
    \cup { Collection(id, TRUE, << >>) : id \in Ids }
    \cup { Collection(id, TRUE, <<i>>) : id \in Ids, i \in Items }

\* Callers that store actors and collections and ask for followers.
ActorNext ==
  \/ \E doc \in ActorDocs : CreateCall(doc) \/ UpdateCall(doc)
  \/ \E id \in Ids : FollowersCall(id)

ActorSpec == Init /\ [][ActorNext]_vars

\* Goroutines that change the inbox as the go-fed actor does: Lock(inbox),
\* GetInbox of a first page, one edit of the page, SetInbox, Unlock(inbox).
LockedInboxNext ==
  \/ \E doc \in EmptyInboxes :
       /\ ~Exists(InboxIRI)
       /\ CreateCall(doc)
  \/ \E c \in Lockers :
       \/ InboxIRI \notin held[c] /\ LockCall(c, InboxIRI)
       \/ LockAcquire(c)
       \/ \E len \in 0..MaxItems :
            /\ InboxIRI \in held[c] /\ page[c] = NoPage
            /\ GetInboxCall(c, InboxIRI, 1, len)
       \/ \E pos \in 1..(MaxItems + 1) : \E item \in {Item("/a"), Item("/x")} :
            EditInsert(c, pos, item)
       \/ \E pos \in 1..MaxItems : EditRemove(c, pos)
       \/ SetInboxLoad(c)
       \/ SetInboxSave(c)
       \/ /\ InboxIRI \in held[c] /\ page[c] = NoPage
          /\ UnlockCall(c, InboxIRI)
       \/ UnlockRelease(c)

LockedInboxSpec == Init /\ [][LockedInboxNext]_vars

\* Goroutines that work on documents under the lock of the document's id,
\* with Create, Update and Delete, and that may call Unlock for an id that
\* nobody has locked yet.
RegistryNext ==
  \E c \in Lockers :
    \/ \E id \in Ids : id \notin held[c] /\ LockCall(c, id)
    \/ LockAcquire(c)
    \/ \E id \in Ids :
         /\ id \in held[c] \/ String(id) \notin DOMAIN locks
         /\ UnlockCall(c, id)
    \/ UnlockRelease(c)
    \/ \E doc \in Docs :
         /\ doc.id \in held[c] /\ pc[c] = "idle"
         /\ CreateCall(doc) \/ UpdateCall(doc)
    \/ \E id \in Ids : id \in held[c] /\ DeleteCall(c, id)
    \/ DeleteRecurse(c)
    \/ DeleteOverflow(c)

RegistrySpec == Init /\ [][RegistryNext]_vars

\* Goroutines that unlock only what they hold but may call Lock for an id
\* whose lock they hold already.
ReentrantNext ==
  \E c \in Contexts :
    \/ \E id \in Ids : LockCall(c, id)
    \/ LockAcquire(c)
    \/ Cancel(c)
    \/ \E id \in Ids : id \in held[c] /\ UnlockCall(c, id)
    \/ UnlockRelease(c)

ReentrantSpec == Init /\ [][ReentrantNext]_vars

\* The one global order of the ids: by their strings, upper case first.
LockOrder ==
  << [host |-> "OTHER.example", path |-> "/users/x"],
     [host |-> "other.example", path |-> "/users/x"] >>

\* The id goroutine c locks as its i-th.
Nth(c, i) ==
  IF order[c] = "ascending" THEN LockOrder[i]
                            ELSE LockOrder[Len(LockOrder) + 1 - i]

\* Goroutines that need the locks of both ids: each locks its first id, then
\* its second, and afterwards unlocks the two, over and over.
OrderedCall(c) ==
  \/ held[c] = {} /\ LockCall(c, Nth(c, 1))
  \/ held[c] = {Nth(c, 1)} /\ LockCall(c, Nth(c, 2))
  \/ held[c] = Ids /\ UnlockCall(c, Nth(c, 1))
  \/ held[c] = {Nth(c, 2)} /\ UnlockCall(c, Nth(c, 2))

OrderedNext ==
  \E c \in Contexts :
    \/ OrderedCall(c)
    \/ LockAcquire(c)
    \/ UnlockRelease(c)

\* Some of the goroutines, none or all of them maybe, take the two locks in
\* ascending order and the others in descending order.
OrderedInit ==
  \E t \in 1..(NumContexts + 1) :
    ConstructedWith("localhost",
      [c \in Contexts |-> IF c < t THEN "ascending" ELSE "descending"])

OrderedSpec == OrderedInit /\ [][OrderedNext]_vars

\* The scheduler runs every runnable goroutine, and a sync.Mutex hands the
\* lock to a goroutine that has waited for it for long (starvation mode), so
\* no waiter is passed over for ever.
FairOrderedSpec ==
  /\ OrderedSpec
  /\ \A c \in Contexts :
       /\ WF_vars(OrderedCall(c))
       /\ WF_vars(UnlockRelease(c))
       /\ SF_vars(LockAcquire(c))

(* ------------------------------ properties ---------------------------- *)

Holders(id) == { c \in Contexts : id \in held[c] }
Waiters(id) == { c \in Contexts : pc[c] = "Lock47" /\ arg[c] = id }
Locked(id) == String(id) \in DOMAIN locks /\ mutexes[locks[String(id)]]

\* C1: for every id at most one goroutine has returned from Lock(id) without
\* its matching Unlock(id), and while one has, the id's mutex is locked, so
\* that a second Lock(id) stays at line 47 until the holder unlocks.
MutualExclusion ==
  \A id \in Ids :
    /\ Cardinality(Holders(id)) <= 1
    /\ Holders(id) # {} => Locked(id)

\* C1 witness: one goroutine holds an id while another waits in Lock for it.
MutualExclusionWitness ==
  \E id \in Ids : \E c1, c2 \in Contexts :
    c1 # c2 /\ id \in held[c1] /\ c2 \in Waiters(id)

\* C2: a registry entry, once installed, is never replaced by another mutex;
\* it is locked and held by its installer in the very state in which it
\* appears; and every goroutine waiting in Lock(id) waits on the registry's
\* mutex for id, never on a mutex of its own.
AtomicLockCreation ==
  /\ [](\A c \in Contexts :
         pc[c] = "Lock47" =>
           /\ String(arg[c]) \in DOMAIN locks
           /\ mu[c] = locks[String(arg[c])])
  /\ [][\A id \in Ids :
         /\ String(id) \in DOMAIN locks =>
              /\ String(id) \in DOMAIN locks'
              /\ locks'[String(id)] = locks[String(id)]
         /\ (String(id) \notin DOMAIN locks /\ String(id) \in DOMAIN locks') =>
              /\ mutexes'[locks'[String(id)]]
              /\ \E c \in Contexts : id \in held'[c] /\ id \notin held[c]]_vars

\* C2 witness: two goroutines raced a holder for the same id and both wait
\* on the one mutex installed for it.
AtomicLockCreationWitness ==
  \E id \in Ids : \E c1, c2, c3 \in Contexts :
    /\ c1 # c2 /\ c1 # c3 /\ c2 # c3
    /\ id \in held[c1]
    /\ {c2, c3} \subseteq Waiters(id)
    /\ mu[c2] = locks[String(id)] /\ mu[c3] = locks[String(id)]

\* C3: an Unlock(id) that finds the id's mutex not locked returns an error;
\* it neither ends the process nor returns nil.
UnlockNotHeldIsError ==
  [][\A c \in Contexts :
       (pc[c] = "Unlock62" /\ ~mutexes[mu[c]]
          /\ (pc'[c] # pc[c] \/ crashed' # crashed)) =>
         (crashed' = "none" /\ pc'[c] = "idle" /\ ret'[c] \notin {"nil", "none"})]_vars

\* C4: an Unlock(id) by a goroutine that does not hold id, while another
\* does, returns an error and leaves the mutex locked.
UnlockByOtherIsError ==
  [][\A c \in Contexts :
       (pc[c] = "Unlock62" /\ mutexes[mu[c]] /\ arg[c] \notin held[c]
          /\ pc'[c] # pc[c]) =>
         (ret'[c] \notin {"nil", "none"} /\ mutexes'[mu[c]])]_vars

\* C5: when goroutines wait in Lock(id) and the mutex of id is unlocked,
\* eventually the lock of id is held again by a goroutine that returned from
\* Lock(id); and the step that locks it again lets exactly one of the
\* waiting goroutines return from Lock(id), which is then the only holder.
ProgressOnRelease ==
  /\ \A id \in Ids :
       (Waiters(id) # {} /\ ~Locked(id)) ~> (Holders(id) # {} /\ Locked(id))
  /\ [][\A id \in Ids :
         (Waiters(id) # {} /\ ~Locked(id) /\ Locked(id)') =>
           /\ Cardinality(Waiters(id) \ Waiters(id)') = 1
           /\ Holders(id)' = Waiters(id) \ Waiters(id)']_vars

\* C5 witness: the holder has unlocked while two goroutines wait.
ProgressOnReleaseWitness ==
  \E id \in Ids :
    ~Locked(id) /\ Holders(id) = {} /\ Cardinality(Waiters(id)) >= 2

\* C6: a Lock call whose context was cancelled while it was blocked on a
\* mutex locked by another goroutine returns an error and does not leave its
\* caller holding the lock.
CancelledLockFails ==
  [][\A c \in Contexts :
       (pc[c] = "Lock47" /\ cancelled[c] /\ pc'[c] = "idle") =>
         (ret'[c] \notin {"nil", "none"} /\ arg[c] \notin held'[c])]_vars

\* C7: Create of a document with an id succeeds; a Get of an id whose last
\* write was Create(doc) or Update(doc) returns doc and no error, and Exists
\* of that id is true.
CreateGetRoundTrip ==
  /\ (last.op = "Create" /\ last.doc.id # NoId) => last.err = "nil"
  /\ (last.op = "Get" /\ lastWrite[String(last.id)] # NoDoc) =>
       (last.val = lastWrite[String(last.id)] /\ last.err = "nil")
  /\ (last.op = "Exists" /\ lastWrite[String(last.id)] # NoDoc) => last.found

\* C7 witness: a Get has returned the document last created under its id.
CreateGetRoundTripWitness ==
  /\ last.op = "Get"
  /\ last.val # NoDoc
  /\ last.val = lastWrite[String(last.id)]

\* C8: the step a Delete(id) call takes at line 130 removes the entry of id
\* and returns; it does not end the process.
DeleteRemovesEntry ==
  [][\A c \in Contexts :
       (pc[c] = "Delete130"
          /\ (pc'[c] # pc[c] \/ depth'[c] # depth[c] \/ crashed' # crashed)) =>
         (pc'[c] = "idle" /\ crashed' = "none"
            /\ String(arg[c]) \notin DOMAIN content')]_vars

\* The content map with document doc written over the entry of its id.
Overwritten(cont, doc) ==
  [k \in DOMAIN cont \cup {String(doc.id)} |->
     IF k = String(doc.id)
       THEN [data |-> doc, isLocal |-> (doc.id.host = hostname)]
       ELSE cont[k]]

\* C9: a completed Update(doc) and a completed Create(doc) both fail on a
\* document without id and leave the content map as it was, and otherwise
\* both return nil and leave the map with the one entry of doc's id
\* overwritten, whether or not there was an entry before.
UpdateSameAsCreate ==
  [][(last'.op \in {"Create", "Update"}
        /\ (last' # last \/ content' # content)) =>
       IF last'.doc.id = NoId
         THEN last'.err # "nil" /\ content' = content
         ELSE last'.err = "nil" /\ content' = Overwritten(content, last'.doc)]_vars

\* C9 witness: an Update has written a document under its id.
UpdateSameAsCreateWitness ==
  /\ last.op = "Update"
  /\ last.err = "nil"
  /\ content[String(last.id)].data = last.doc

\* The lower-case form of a host name of the model.
ToLower(h) == IF h = "OTHER.example" THEN "other.example" ELSE h

\* C10: Owns(id) is true exactly when the id's host equals the hostname
\* without regard to case.
OwnsCaseInsensitive ==
  last.op = "Owns" => (last.found <=> ToLower(last.id.host) = ToLower(hostname))

\* The entry of the content map under key k: a set with the entry, or empty.
EntryAt(cont, k) == IF k \in DOMAIN cont THEN {cont[k]} ELSE {}

\* C11: calls on one id never change the entry of another. In every state
\* the entry under a key is the one its own last successful Create or Update
\* made (none when it had none), whatever calls on the other ids, Delete
\* among them, ran in between; and a step changes the entry under a key only
\* when it is a successful Create or Update of a document with that id.
NonInterference ==
  /\ [](\A k \in Keys :
         EntryAt(content, k) =
           IF lastWrite[k] = NoDoc
             THEN {}
             ELSE {[data |-> lastWrite[k],
                    isLocal |-> lastWrite[k].id.host = hostname]})
  /\ [][\A k \in Keys :
         EntryAt(content', k) # EntryAt(content, k) =>
           /\ last'.op \in {"Create", "Update"}
           /\ last'.err = "nil"
           /\ String(last'.doc.id) = k]_vars

\* C11 witness: both ids have entries with different payloads, the last call
\* wrote one of them, and a Delete of the other id is in progress.
NonInterferenceWitness ==
  \E id1, id2 \in Ids : \E c \in Contexts :
    /\ id1 # id2
    /\ String(id1) \in DOMAIN content /\ String(id2) \in DOMAIN content
    /\ content[String(id1)].data.body # content[String(id2)].data.body
    /\ last.op \in {"Create", "Update"} /\ last.err = "nil" /\ last.id = id2
    /\ pc[c] = "Delete130" /\ arg[c] = id1

\* C17: the isLocal tag of every entry is what Owns gives for the entry's id
\* under the hostname the DB was constructed with, and no later call, an
\* Update of the entry in particular, changes the tag of an entry.
LocalityTag ==
  /\ [](\A k \in DOMAIN content :
         content[k].isLocal = (content[k].data.id.host = hostname))
  /\ [][/\ hostname' = hostname
        /\ \A k \in DOMAIN content :
             k \in DOMAIN content' =>
               content'[k].isLocal = content[k].isLocal]_vars

\* C17 witness: an entry owned by this DB has just been rewritten by an
\* Update with a payload other than the one it was created with.
LocalityTagWitness ==
  \E id \in Ids :
    /\ Owns(id)
    /\ last.op = "Update" /\ last.err = "nil" /\ last.id = id
    /\ content[String(id)].isLocal
    /\ content[String(id)].data.body = "v2"

\* The items of the collection stored under InboxIRI in cont.
InboxItems(cont) == cont[String(InboxIRI)].data.items

\* Goroutine c is in SetInbox and this step is its save (lines 201-206).
Saves(c) == pc[c] = "SetInbox201" /\ pc'[c] = "idle"

\* The page of c is a view of the collection that SetInbox loaded.
FreshPage(c) ==
  page[c].was = Slice(storedInbox[c].items, page[c].start,
                      page[c].start + page[c].len - 1)

\* C12: when a page of the inbox comes back to SetInbox with one item added
\* at index p, the inbox saved is the stored one with that item put in at the
\* place of the collection that index p of the page stands for; taking it out
\* again gives the stored items in their order; and InboxContains of the new
\* item is true. So stored a b c d e with page b c handed back as b x c
\* is saved as a b x c d e.
InsertionMergeLaw ==
  /\ updatedInbox(
       Collection(InboxIRI, TRUE,
         <<Item("/a"), Item("/b"), Item("/c"), Item("/d"), Item("/e")>>),
       Page(InboxIRI, 2, 2, <<Item("/b"), Item("/c")>>,
            <<Item("/b"), Item("/x"), Item("/c")>>)).items
       = <<Item("/a"), Item("/b"), Item("/x"), Item("/c"), Item("/d"),
           Item("/e")>>
  /\ [][\A c \in Contexts :
         Saves(c) /\ FreshPage(c) =>
           \A p \in 1..Len(page[c].items) :
             page[c].items = InsertAt(page[c].was, p, page[c].items[p]) =>
               LET at == page[c].start + p - 1
               IN  /\ InboxItems(content') =
                        InsertAt(storedInbox[c].items, at, page[c].items[p])
                   /\ RemoveAt(InboxItems(content'), at) = storedInbox[c].items
                   /\ InboxContains(content', InboxIRI,
                                    page[c].items[p]).contains]_vars

\* C12 witness: the inbox a b c, whose page b c came back as b x c, has been
\* saved as a b x c.
InsertionMergeLawWitness ==
  /\ last.op = "SetInbox" /\ last.err = "nil"
  /\ last.doc.was = <<Item("/b"), Item("/c")>>
  /\ last.doc.items = <<Item("/b"), Item("/x"), Item("/c")>>
  /\ InboxItems(content) = <<Item("/a"), Item("/b"), Item("/x"), Item("/c")>>

\* C13: when a page of the inbox comes back to SetInbox with the item at
\* index p left out, the inbox saved is the stored one without the item at
\* the place that index p of the page stands for, every other item in its
\* order; and InboxContains of the item left out is true only if the item is
\* listed at another place too. So stored a b c d e with page b c handed
\* back as b is saved as a b d e.
RemovalMergeLaw ==
  /\ updatedInbox(
       Collection(InboxIRI, TRUE,
         <<Item("/a"), Item("/b"), Item("/c"), Item("/d"), Item("/e")>>),
       Page(InboxIRI, 2, 2, <<Item("/b"), Item("/c")>>, <<Item("/b")>>)).items
       = <<Item("/a"), Item("/b"), Item("/d"), Item("/e")>>
  /\ [][\A c \in Contexts :
         Saves(c) /\ FreshPage(c) =>
           \A p \in 1..Len(page[c].was) :
             page[c].items = RemoveAt(page[c].was, p) =>
               LET at == page[c].start + p - 1
                   gone == page[c].was[p]
               IN  /\ InboxItems(content') = RemoveAt(storedInbox[c].items, at)
                   /\ InboxContains(content', InboxIRI, gone).contains
                        <=> \E i \in 1..Len(storedInbox[c].items) :
                              i # at /\ storedInbox[c].items[i] = gone]_vars

\* C13 witness: the inbox a b c x, whose page b c came back as b, has been
\* saved as a b x, and c is no longer contained.
RemovalMergeLawWitness ==
  /\ last.op = "SetInbox" /\ last.err = "nil"
  /\ last.doc.was = <<Item("/b"), Item("/c")>>
  /\ last.doc.items = <<Item("/b")>>
  /\ InboxItems(content) = <<Item("/a"), Item("/b"), Item("/x")>>
  /\ ~InboxContains(content, InboxIRI, Item("/c")).contains

\* C14: InboxContains(inbox, id) answers true exactly when an item of the
\* stored collection is the id asked for, answers false without error when
\* the collection has no orderedItems property or no items, and leaves the
\* content table as it was.
InboxContainsExact ==
  /\ [](last.op = "InboxContains" /\ Exists(InboxIRI) =>
         LET oc == content[String(InboxIRI)].data
         IN  /\ last.err = "nil"
             /\ last.found <=> \E i \in 1..Len(oc.items) : oc.items[i] = last.id
             /\ (~oc.hasItems \/ oc.items = << >>) => ~last.found)
  /\ [][last'.op = "InboxContains" =>
          content' = content /\ lastWrite' = lastWrite]_vars

\* C14 witness: InboxContains found an id that is not the first item of a
\* collection in which other ids are listed too.
InboxContainsExactWitness ==
  /\ last.op = "InboxContains" /\ last.found
  /\ Len(InboxItems(content)) = 3
  /\ InboxItems(content)[1] # last.id
  /\ InboxItems(content)[2] # last.id
  /\ InboxItems(content)[3] = last.id

\* C15: Followers(actor) of a stored Person whose followers property is nil
\* returns the error "no followers collection" and no collection; when the
\* property is an id under which an OrderedCollection is stored, it returns
\* that collection without error; either way the content table is as before.
FollowersResolves ==
  /\ [](/\ last.op = "Followers"
        /\ Exists(last.id)
        /\ content[String(last.id)].data.body = "Person"
        => LET f == content[String(last.id)].data.followers
           IN  IF f = NoId
                 THEN last.err = "no followers collection" /\ last.val = NoDoc
                 ELSE /\ Exists(f)
                      /\ content[String(f)].data.body = "OrderedCollection"
                      => /\ last.err = "nil"
                         /\ last.val = content[String(f)].data)
  /\ [][last'.op = "Followers" =>
          content' = content /\ lastWrite' = lastWrite]_vars

\* C15 witness: Followers was asked for a Person without followers property
\* while a collection is stored under the other id, and returned the error.
FollowersResolvesWitness ==
  \E id \in Ids :
    /\ last.op = "Followers" /\ last.id = id
    /\ last.err = "no followers collection"
    /\ Exists(id) /\ content[String(id)].data = Person(id, NoId)
    /\ \E k \in DOMAIN content : content[k].data.body = "OrderedCollection"

\* C16: when every goroutine brackets GetInbox .. SetInbox with Lock(inbox)
\* and Unlock(inbox), no call's load and save interleaves with another's: a
\* page in a goroutine's hands is a view of the inbox as it is stored now,
\* the collection SetInbox loaded is the one stored now, and each save stores
\* the diff of its page applied to the inbox the save before it left, so the
\* inbox is what the calls give one after another in the order of the locks.
NoLostUpdate ==
  /\ [](\A c \in Contexts :
         page[c] # NoPage =>
           /\ InboxIRI \in held[c]
           /\ page[c].was = Slice(InboxItems(content), page[c].start,
                                  page[c].start + page[c].len - 1)
           /\ pc[c] = "SetInbox201" =>
                storedInbox[c] = content[String(InboxIRI)].data)
  /\ [][\A c \in Contexts :
         Saves(c) =>
           content'[String(InboxIRI)].data =
             updatedInbox(content[String(InboxIRI)].data, page[c])]_vars

\* C16 witness: a goroutine is about to save a page it changed, on an inbox
\* that an earlier SetInbox has filled, while another waits in Lock(inbox).
NoLostUpdateWitness ==
  \E c1, c2 \in Contexts :
    /\ c1 # c2
    /\ pc[c1] = "SetInbox201" /\ page[c1].items # page[c1].was
    /\ InboxItems(content) # << >>
    /\ pc[c2] = "Lock47" /\ arg[c2] = InboxIRI

\* C18: the lock registry only grows. Whatever step is taken, a Lock, an
\* Unlock, a Create, an Update or a step of Delete of the same id, an id that
\* has a mutex in the registry keeps that very mutex; and an id gets its
\* mutex only from a Lock call that returns holding it, so an Unlock of an
\* id without entry, which returns an error, makes none.
RegistryMonotone ==
  /\ [][\A k \in DOMAIN locks :
         k \in DOMAIN locks' /\ locks'[k] = locks[k]]_vars
  /\ [][\A id \in Ids :
         String(id) \in DOMAIN locks' \ DOMAIN locks =>
           \E c \in Contexts :
             /\ id \in held'[c] \ held[c]
             /\ ret'[c] = "nil"]_vars

\* C18 witness: an id whose lock has been taken, released and taken again
\* has an entry in the content table and a Delete of it under way, while an
\* Unlock of an id without entry has returned its error.
RegistryMonotoneWitness ==
  \E id \in Ids : \E c, d \in Contexts :
    /\ c # d
    /\ pc[c] = "Delete130" /\ arg[c] = id /\ depth[c] = "nested"
    /\ Exists(id)
    /\ String(id) \in DOMAIN locks
    /\ ret[c] = "nil"
    /\ ret[d] = "Missing an id in Unlock"

\* Goroutine c is inside Lock(id), at line 47, for an id it holds already.
SelfBlocked(c) == pc[c] = "Lock47" /\ arg[c] \in held[c]

\* C20: Lock is not re-entrant. A goroutine that holds an id and calls
\* Lock(id) again finds the id's mutex locked, by itself and nobody else, and
\* while no other goroutine unlocks that id it stays in the call whatever
\* step is taken, its cancellation included: the call does not return and
\* there is never a second holder.
NotReentrant ==
  /\ [](\A c \in Contexts :
         SelfBlocked(c) =>
           /\ mutexes[mu[c]]
           /\ mu[c] = locks[String(arg[c])]
           /\ Holders(arg[c]) = {c})
  /\ [][\A c \in Contexts :
         SelfBlocked(c) =>
           /\ pc'[c] = "Lock47"
           /\ arg'[c] = arg[c]
           /\ held'[c] = held[c]
           /\ ret'[c] = ret[c]]_vars

\* C20 witness: a goroutine is inside Lock for an id it holds, its context
\* is cancelled, and another goroutine waits for the same id.
NotReentrantWitness ==
  \E c, d \in Contexts :
    /\ c # d
    /\ SelfBlocked(c) /\ cancelled[c]
    /\ pc[d] = "Lock47" /\ arg[d] = arg[c] /\ arg[c] \notin held[d]

\* Goroutine c is inside Lock, at line 47, and the mutex is locked.
Blocked(c) == pc[c] = "Lock47" /\ mutexes[mu[c]]

\* All goroutines take the locks of the two ids in one order.
SameOrder == \A c, d \in Contexts : order[c] = order[d]

\* C19: when all goroutines that need the locks of both ids take them in the
\* same order and release both afterwards, there is no state in which every
\* goroutine is blocked in Lock, and, the scheduler and the mutexes being
\* fair, every goroutine comes to hold both locks again and again.
OrderedDeadlockFree ==
  /\ [](SameOrder => \E c \in Contexts : ~Blocked(c))
  /\ \A c \in Contexts : [](SameOrder => <>(held[c] = Ids))

\* C19 witness: with one order for all, a goroutine holds both locks while
\* every other goroutine is blocked in Lock for the first id of that order.
OrderedDeadlockFreeWitness ==
  /\ SameOrder
  /\ \E c \in Contexts :
       /\ held[c] = Ids
       /\ \A d \in Contexts \ {c} : Blocked(d) /\ arg[d] = Nth(d, 1)

\* The other half of C19: with goroutines of opposite orders a state is
\* reached in which every goroutine is blocked in Lock, two of them holding
\* the lock the other waits for.
OpposedDeadlock ==
  /\ ~SameOrder
  /\ \A c \in Contexts : Blocked(c)
  /\ \E c, d \in Contexts :
       /\ arg[c] \in held[d]
       /\ arg[d] \in held[c]


====
